---- MODULE Spec2Model ----
(***************************************************************************)
(* Finite automata of pyautomata (src/automata/automata.py): one automaton *)
(* (a DFAutomaton or an NFAutomaton) is constructed, built by add_state /  *)
(* add_transition calls, completed, queried and transformed.               *)
(*                                                                         *)
(* Every method is an operator from the receiver (and the arguments) to a  *)
(* record [self, ret, out]: the receiver after the call, what the call     *)
(* returned or raised, and the object it returned (if any).  An exception  *)
(* is a ret of "ValueError", "KeyError" or "TypeError"; self is then the   *)
(* receiver as the statements executed before the raise left it.           *)
(***************************************************************************)
EXTENDS Integers, Sequences, FiniteSets, TLC

VARIABLES fa, op, ret, out

vars == <<fa, op, ret, out>>

----------------------------------------------------------------------------
(* Bounds of the exploration *)

\* caller-chosen state ids are 0..MaxId
MaxId == 1
\* successful caller add_transition calls stop once the automaton holds this many transitions
MaxTransitions == 2
\* words given to accepts have at most this many letters
MaxWordLen == 3

----------------------------------------------------------------------------
(* Values *)

\* Python's None where a state id is expected (state ids are non-negative)
None == -1

\* the automaton's alphabet, fixed at construction
Alphabet == {"a", "b"}

\* a letter that is not in the alphabet
Outside == "c"

\* set(letters) for the strings "", "a", "b", "ab", "ba", "c"
LetterSets == (SUBSET Alphabet) \cup {{Outside}}

\* the orders in which `for letter in self._alphabet` can visit the alphabet
\* (the iteration order of a Python set of str is not fixed by the program)
LetterOrders == {<<"a", "b">>, <<"b", "a">>}

Errors == {"ValueError", "KeyError", "TypeError"}

NoOut == [kind |-> "none"]

Range(s) == {s[i] : i \in DOMAIN s}

RECURSIVE SumSeq(_)
SumSeq(s) == IF s = <<>> THEN 0 ELSE Head(s) + SumSeq(Tail(s))

RECURSIVE SetToSeq(_)
SetToSeq(S) == IF S = {} THEN <<>>
               ELSE LET x == CHOOSE y \in S : TRUE IN <<x>> \o SetToSeq(S \ {x})

\* dict[key] = value on a dict held as a function
Put(f, k, v) == [x \in (DOMAIN f) \cup {k} |-> IF x = k THEN v ELSE f[x]]

\* dict.pop(key) for each key of dead, on a dict held as a function
Drop(f, dead) == [x \in (DOMAIN f) \ dead |-> f[x]]

----------------------------------------------------------------------------
(* State, Transition, constructors *)

State(id, initial, final) ==
    [id |-> id, transitions |-> {}, initial |-> initial, final |-> final]

Transition(letters, to) == [to |-> to, letters |-> letters]

\* The constructors.  A dict (_states) is a function (states) together with
\* the insertion order of its keys (keys).
NewDFAutomaton ==
    [kind |-> "DFA", states |-> <<>>, keys |-> <<>>,
     final_states_ids |-> {}, completed |-> FALSE, initial_state_id |-> None]

NewNFAutomaton ==
    [kind |-> "NFA", states |-> <<>>, keys |-> <<>>,
     final_states_ids |-> {}, completed |-> FALSE, initial_states_ids |-> {}]

_is_word_on_alphabet(word, alphabet) == word \subseteq alphabet

Raise(self, e) == [self |-> self, ret |-> e, out |-> NoOut]

Return(self, v) == [self |-> self, ret |-> v, out |-> NoOut]

----------------------------------------------------------------------------
(* add_state, add_transition *)

DFA_add_state(self, id, initial, final) ==
    IF id \notin DOMAIN self.states
    THEN LET s1 == [self EXCEPT !.states = Put(@, id, State(id, initial, final)),
                                !.keys = Append(@, id)]
         IN  IF initial /\ self.initial_state_id # None
             THEN Raise(s1, "ValueError")
             ELSE Return([s1 EXCEPT
                            !.initial_state_id = IF initial THEN id ELSE @,
                            !.final_states_ids = IF final THEN @ \cup {id} ELSE @],
                         "None")
    ELSE Raise(self, "ValueError")

NFA_add_state(self, id, initial, final) ==
    IF id \notin DOMAIN self.states
    THEN Return([self EXCEPT
                   !.states = Put(@, id, State(id, initial, final)),
                   !.keys = Append(@, id),
                   !.initial_states_ids = IF initial THEN @ \cup {id} ELSE @,
                   !.final_states_ids = IF final THEN @ \cup {id} ELSE @],
                "None")
    ELSE Raise(self, "ValueError")

\* some letter of letters_set already labels a transition leaving from_state
LetterTaken(from_state, letters_set) ==
    \E letter \in letters_set :
        \E transition \in from_state.transitions : letter \in transition.letters

\* add_transition as it would be without the search for a letter already taken
DFA_add_transition_unchecked(self, letters_set, from_id, to_id) ==
    IF ~ _is_word_on_alphabet(letters_set, Alphabet) THEN Raise(self, "ValueError")
    ELSE IF from_id \notin DOMAIN self.states THEN Raise(self, "ValueError")
    ELSE IF to_id \notin DOMAIN self.states THEN Raise(self, "ValueError")
    ELSE Return([self EXCEPT !.states[from_id].transitions =
                                 @ \cup {Transition(letters_set, to_id)}], "None")

DFA_add_transition(self, letters_set, from_id, to_id) ==
    IF ~ _is_word_on_alphabet(letters_set, Alphabet) THEN Raise(self, "ValueError")
    ELSE IF from_id \notin DOMAIN self.states THEN Raise(self, "ValueError")
    ELSE IF to_id \notin DOMAIN self.states THEN Raise(self, "ValueError")
    ELSE IF LetterTaken(self.states[from_id], letters_set) THEN Raise(self, "ValueError")
    ELSE Return([self EXCEPT !.states[from_id].transitions =
                                 @ \cup {Transition(letters_set, to_id)}], "None")

NFA_add_transition(self, letters_set, from_id, to_id) ==
    IF ~ _is_word_on_alphabet(letters_set, Alphabet) THEN Raise(self, "ValueError")
    ELSE IF from_id \notin DOMAIN self.states THEN Raise(self, "ValueError")
    ELSE IF to_id \notin DOMAIN self.states THEN Raise(self, "ValueError")
    ELSE Return([self EXCEPT !.states[from_id].transitions =
                                 @ \cup {Transition(letters_set, to_id)}], "None")

\* self.add_state / self.add_transition called through the base class
add_state(self, id, initial, final) ==
    IF self.kind = "DFA" THEN DFA_add_state(self, id, initial, final)
    ELSE NFA_add_state(self, id, initial, final)

add_transition(self, letters_set, from_id, to_id) ==
    IF self.kind = "DFA" THEN DFA_add_transition(self, letters_set, from_id, to_id)
    ELSE NFA_add_transition(self, letters_set, from_id, to_id)

----------------------------------------------------------------------------
(* complete *)

all_transitions(state) == UNION {transition.letters : transition \in state.transitions}

diff_letters(state) == Alphabet \ all_transitions(state)

\* transitions_to_add as it would be if states without any transition were skipped
transitions_to_add_skipping_bare(self) ==
    SelectSeq(self.keys, LAMBDA k : /\ self.states[k].transitions # {}
                                    /\ diff_letters(self.states[k]) # {})

\* the keys of transitions_to_add, in the order the loop over the states fills it
transitions_to_add(self) ==
    SelectSeq(self.keys, LAMBDA k : diff_letters(self.states[k]) # {})

\* for state_id, letters in transitions_to_add.items(): self.add_transition(...)
RECURSIVE AddHoleTransitions(_, _, _, _)
AddHoleTransitions(self, todo, letters_of, pi_id) ==
    IF todo = <<>> THEN Return(self, "None")
    ELSE LET r == add_transition(self, letters_of[Head(todo)], Head(todo), pi_id)
         IN  IF r.ret \in Errors THEN r
             ELSE AddHoleTransitions(r.self, Tail(todo), letters_of, pi_id)

\* complete() as it would be without the hole state's loop on itself
HoleLoopMissing(self, pi_id) == Return(self, "None")

\* self.add_transition(self._alphabet, pi_id, pi_id)
HoleLoop(self, pi_id) == add_transition(self, Alphabet, pi_id, pi_id)

complete(self) ==
    LET todo == transitions_to_add(self)
        letters_of == [k \in Range(todo) |-> diff_letters(self.states[k])]
        not_complete == todo # <<>>
    IN  IF ~ not_complete
        THEN Return([self EXCEPT !.completed = TRUE], "True")
        ELSE LET pi_id == SumSeq(self.keys) + 1
                 r1 == add_state(self, pi_id, FALSE, FALSE)
             IN  IF r1.ret \in Errors THEN r1
                 ELSE LET r2 == HoleLoop(r1.self, pi_id)
                      IN  IF r2.ret \in Errors THEN r2
                          ELSE LET r3 == AddHoleTransitions(r2.self, todo, letters_of, pi_id)
                               IN  IF r3.ret \in Errors THEN r3
                                   ELSE Return([r3.self EXCEPT !.completed = TRUE], "False")

----------------------------------------------------------------------------
(* DFAutomaton: successor, accepts *)

Bool(b) == IF b THEN "True" ELSE "False"

\* state_id is a key of self._states.  The loop returns at the first transition
\* that carries the letter; add_transition keeps that transition unique.
successor(self, state_id, letter) ==
    LET hits == {transition \in self.states[state_id].transitions :
                     letter \in transition.letters}
    IN  IF hits = {} THEN None ELSE (CHOOSE transition \in hits : TRUE).to

\* the loop of accepts from current_state_id on the rest of the word;
\* self._states[current_state_id] raises KeyError for an id the map lacks
RECURSIVE DFA_run(_, _, _)
DFA_run(self, current_state_id, word) ==
    IF current_state_id \notin DOMAIN self.states THEN "KeyError"
    ELSE IF word = <<>> THEN Bool(self.states[current_state_id].final)
    ELSE LET next_id == successor(self, current_state_id, Head(word))
         IN  IF next_id = None THEN "False"
             ELSE DFA_run(self, next_id, Tail(word))

\* accepts as it would be without the test for a missing initial state
DFA_accepts_unguarded(self, word) == DFA_run(self, self.initial_state_id, word)

DFA_accepts(self, word) ==
    IF self.initial_state_id = None THEN "False"
    ELSE DFA_run(self, self.initial_state_id, word)

----------------------------------------------------------------------------
(* DFAutomaton.reachable_part *)

\* The while loop of the breadth-first search.  marked and waiting are the two
\* dicts (state id -> bool).  The transitions of a state are visited in the
\* set's order; which of them raises or is enqueued does not depend on it.
RECURSIVE Search(_, _, _, _)
Search(self, state_queue, marked, waiting) ==
    IF state_queue = <<>> THEN [err |-> "None", marked |-> marked]
    ELSE LET state_id == Head(state_queue)
             marked1 == Put(marked, state_id, TRUE)
         IN  IF state_id \notin DOMAIN self.states
             THEN [err |-> "KeyError", marked |-> marked1]
             ELSE LET targets == {transition.to :
                                      transition \in self.states[state_id].transitions}
                  IN  IF \E to \in targets : to \notin DOMAIN waiting
                      THEN [err |-> "KeyError", marked |-> marked1]
                      ELSE LET fresh == {to \in targets : ~ waiting[to] /\ ~ marked1[to]}
                           IN  Search(self,
                                      Tail(state_queue) \o SetToSeq(fresh),
                                      marked1,
                                      [i \in DOMAIN waiting |->
                                           IF i \in fresh THEN TRUE ELSE waiting[i]])

\* min_dfa after the pops of the states that were not marked
Pruned(min_dfa, marked) ==
    LET dead == {i \in DOMAIN marked : ~ marked[i]}
    IN  [min_dfa EXCEPT !.states = Drop(@, dead),
                        !.keys = SelectSeq(@, LAMBDA k : k \notin dead),
                        !.final_states_ids = @ \ dead]

\* copy.deepcopy: a value equal to x that shares nothing with it
deepcopy(x) == x

\* reachable_part as it would be with min_dfa = self in place of the deep copy
reachable_part_in_place(self) ==
    LET unmarked == [i \in DOMAIN self.states |-> FALSE]
        found == Search(self, <<self.initial_state_id>>, unmarked, unmarked)
    IN  IF found.err \in Errors THEN Raise(self, found.err)
        ELSE LET min_dfa == Pruned(self, found.marked)
             IN  [self |-> min_dfa, ret |-> "DFA", out |-> min_dfa]

reachable_part(self) ==
    LET unmarked == [i \in DOMAIN self.states |-> FALSE]
        found == Search(self, <<self.initial_state_id>>, unmarked, deepcopy(unmarked))
    IN  IF found.err \in Errors THEN Raise(self, found.err)
        ELSE LET min_dfa == Pruned(deepcopy(self), found.marked)
             IN  [self |-> self, ret |-> "DFA", out |-> min_dfa]

----------------------------------------------------------------------------
(* UnorderedPair, unique_unordered_pairs *)

\* a and b are state ids (not None): the pair with the smaller one first
UnorderedPair(a, b) == <<IF a <= b THEN a ELSE b, IF b > a THEN b ELSE a>>

\* the pairs in the order the generator yields them: e1 runs over the
\* iterable, e2 over its reverse, and each e1 takes one pair fewer
unique_unordered_pairs(iterable) ==
    LET n == Len(iterable)
        RECURSIVE Rows(_)
        Rows(i) == IF i > n THEN <<>>
                   ELSE [pos \in 1..(n - i) |->
                             UnorderedPair(iterable[i], iterable[n - pos + 1])]
                        \o Rows(i + 1)
    IN  Rows(1)

----------------------------------------------------------------------------
(* DFAutomaton.equivalent_states *)

\* the first loop as it would be if it marked no pair
SplitByFinalMissing(self, pairs) ==
    [equivalents |-> Range(pairs), not_equivalents |-> {},
     new_neq_states |-> TRUE, err |-> "None"]

\* the first loop: a final and a non-final state are not equivalent
SplitByFinal(self, pairs) ==
    LET split == {p \in Range(pairs) :
                      self.states[p[1]].final # self.states[p[2]].final}
    IN  [equivalents |-> Range(pairs) \ split, not_equivalents |-> split,
         new_neq_states |-> TRUE, err |-> "None"]

\* One pass of the while loop over work, the sequence of (pair q, letter) in
\* loop order.  UnorderedPair(None, x) raises TypeError (None is not ordered);
\* equivalents.remove(q) raises KeyError when q is no longer in the set.
RECURSIVE RefinePass(_, _, _)
RefinePass(self, work, st) ==
    IF work = <<>> THEN st
    ELSE LET q == Head(work)[1]
             letter == Head(work)[2]
             sa == successor(self, q[1], letter)
             sb == successor(self, q[2], letter)
         IN  IF sa = None \/ sb = None THEN [st EXCEPT !.err = "TypeError"]
             ELSE IF UnorderedPair(sa, sb) \in st.not_equivalents
                  THEN IF q \notin st.equivalents
                       THEN [st EXCEPT !.not_equivalents = @ \cup {q},
                                       !.err = "KeyError"]
                       ELSE RefinePass(self, Tail(work),
                                [st EXCEPT !.not_equivalents = @ \cup {q},
                                           !.equivalents = @ \ {q},
                                           !.new_neq_states = TRUE])
                  ELSE RefinePass(self, Tail(work), st)

RECURSIVE Refine(_, _, _)
Refine(self, work, st) ==
    IF ~ st.new_neq_states THEN st
    ELSE LET st1 == RefinePass(self, work, [st EXCEPT !.new_neq_states = FALSE])
         IN  IF st1.err \in Errors THEN st1 ELSE Refine(self, work, st1)

\* (pair, letter) in the order of the nested for loops
PairLetterWork(pairs, letter_order) ==
    [i \in 1..(Len(pairs) * Len(letter_order)) |->
        <<pairs[((i - 1) \div Len(letter_order)) + 1],
          letter_order[((i - 1) % Len(letter_order)) + 1]>>]

equivalent_states(self, letter_order) ==
    LET pairs == unique_unordered_pairs(self.keys)
        st == Refine(self, PairLetterWork(pairs, letter_order),
                     SplitByFinal(self, pairs))
    IN  IF st.err \in Errors THEN Raise(self, st.err)
        ELSE [self |-> self, ret |-> "pairs",
              out |-> [kind |-> "pairs", pairs |-> st.equivalents]]

----------------------------------------------------------------------------
(* DFAutomaton.merge_equivalent_states, minimized *)

merge_equivalent_states(self, letter_order) ==
    LET r == equivalent_states(self, letter_order)
    IN  IF r.ret \in Errors THEN Raise(self, r.ret)
        ELSE LET eq == r.out.pairs
                 popped == {p[2] : p \in eq}
                 kept == (DOMAIN self.states) \ popped
             IN  Return([self EXCEPT
                     !.states = [i \in kept |->
                         [self.states[i] EXCEPT !.transitions =
                             {transition \in @ :
                                  UnorderedPair(i, transition.to) \notin eq}]],
                     !.keys = SelectSeq(@, LAMBDA k : k \notin popped)],
                   "None")

minimized(self, letter_order) ==
    LET r1 == reachable_part(self)
    IN  IF r1.ret \in Errors THEN Raise(r1.self, r1.ret)
        ELSE LET r2 == complete(r1.out)
             IN  IF r2.ret \in Errors THEN Raise(r1.self, r2.ret)
                 ELSE LET r3 == merge_equivalent_states(r2.self, letter_order)
                      IN  IF r3.ret \in Errors THEN Raise(r1.self, r3.ret)
                          ELSE [self |-> r1.self, ret |-> "DFA", out |-> r3.self]

----------------------------------------------------------------------------
(* NFAutomaton: _get_reachable_states, accepts, determinized *)

\* transition._letters == "": _letters is the set built by set(letters) in
\* add_transition, and in Python a set never equals a str, the empty ones included
LettersEqualEmptyStr(letters) == FALSE

_get_reachable_states(self, letter, states_ids) ==
    {transition.to :
        transition \in UNION {{t \in self.states[state_id].transitions :
                                   LettersEqualEmptyStr(t.letters) \/ letter \in t.letters} :
                              state_id \in states_ids}}

RECURSIVE NFA_run(_, _, _)
NFA_run(self, reachable_states_ids, word) ==
    IF word = <<>> THEN reachable_states_ids
    ELSE NFA_run(self, _get_reachable_states(self, Head(word), reachable_states_ids),
                 Tail(word))

NFA_accepts(self, word) ==
    Bool(NFA_run(self, self.initial_states_ids, word) \cap self.final_states_ids # {})

\* list.index: the 0-based position of the first element equal to x
Index(list, x) == (CHOOSE i \in DOMAIN list :
                       list[i] = x /\ \A j \in DOMAIN list : list[j] = x => i <= j) - 1

\* the final flag of a subset as it would be if every member had to be final
IntersectsAll(self, ids) == ids # {} /\ ids \subseteq self.final_states_ids

\* not self._final_states_ids.isdisjoint(ids)
Intersects(self, ids) == self.final_states_ids \cap ids # {}

\* the body of `for letter in self._alphabet` for one letter;
\* d holds dfa, new_states, states_to_treat and the exception raised (if any)
DeterminizeLetter(self, d, current_states_ids, letter) ==
    LET reachable_states_ids == _get_reachable_states(self, letter, current_states_ids)
        seen == reachable_states_ids \in Range(d.new_states)
        r1 == IF seen THEN Return(d.dfa, "None")
              ELSE DFA_add_state(d.dfa, Len(d.new_states), FALSE,
                                 Intersects(self, reachable_states_ids))
    IN  IF r1.ret \in Errors THEN [d EXCEPT !.dfa = r1.self, !.err = r1.ret]
        ELSE LET new_states == IF seen THEN d.new_states
                               ELSE Append(d.new_states, reachable_states_ids)
                 queue == IF seen THEN d.states_to_treat
                          ELSE Append(d.states_to_treat, reachable_states_ids)
                 r2 == DFA_add_transition(r1.self, {letter},
                                          Index(new_states, current_states_ids),
                                          Index(new_states, reachable_states_ids))
             IN  [dfa |-> r2.self, new_states |-> new_states,
                  states_to_treat |-> queue, err |-> r2.ret]

RECURSIVE DeterminizeLetters(_, _, _, _)
DeterminizeLetters(self, d, current_states_ids, letters) ==
    IF letters = <<>> \/ d.err \in Errors THEN d
    ELSE DeterminizeLetters(self,
             DeterminizeLetter(self, d, current_states_ids, Head(letters)),
             current_states_ids, Tail(letters))

RECURSIVE DeterminizeLoop(_, _, _)
DeterminizeLoop(self, d, letter_order) ==
    IF d.states_to_treat = <<>> \/ d.err \in Errors THEN d
    ELSE DeterminizeLoop(self,
             DeterminizeLetters(self,
                 [d EXCEPT !.states_to_treat = Tail(@)],
                 Head(d.states_to_treat), letter_order),
             letter_order)

determinized(self, letter_order) ==
    LET r0 == DFA_add_state(NewDFAutomaton, 0, TRUE,
                            Intersects(self, self.initial_states_ids))
        d == DeterminizeLoop(self,
                 [dfa |-> r0.self, new_states |-> <<self.initial_states_ids>>,
                  states_to_treat |-> <<self.initial_states_ids>>, err |-> r0.ret],
                 letter_order)
    IN  IF d.err \in Errors THEN Raise(self, d.err)
        ELSE [self |-> self, ret |-> "DFA", out |-> d.dfa]

----------------------------------------------------------------------------
(* The calls *)

NumTransitions(self) ==
    LET RECURSIVE Count(_)
        Count(ks) == IF ks = <<>> THEN 0
                     ELSE Cardinality(self.states[Head(ks)].transitions) + Count(Tail(ks))
    IN  Count(self.keys)

\* the ids a caller passes (the hole state's id is the automaton's choice; a
\* caller names it only when it falls in this range)
CallIds == 0..MaxId

Init ==
    /\ fa \in {NewDFAutomaton, NewNFAutomaton}
    /\ op = "new"
    /\ ret = "None"
    /\ out = NoOut

Call(name, r) ==
    /\ fa' = r.self
    /\ op' = name
    /\ ret' = r.ret
    /\ out' = r.out

AddState ==
    \E id \in 0..MaxId, initial \in BOOLEAN, final \in BOOLEAN :
        Call("add_state", add_state(fa, id, initial, final))

AddTransition ==
    \E letters \in LetterSets, from_id \in CallIds, to_id \in CallIds :
        LET r == add_transition(fa, letters, from_id, to_id)
        IN  /\ r.ret \in Errors \/ NumTransitions(fa) < MaxTransitions
            /\ Call("add_transition", r)

Complete == Call("complete", complete(fa))

EquivalentStates ==
    /\ fa.kind = "DFA"
    /\ \E letter_order \in LetterOrders :
           Call("equivalent_states", equivalent_states(fa, letter_order))

MergeEquivalentStates ==
    /\ fa.kind = "DFA"
    /\ \E letter_order \in LetterOrders :
           Call("merge_equivalent_states", merge_equivalent_states(fa, letter_order))

ReachablePart ==
    /\ fa.kind = "DFA"
    /\ Call("reachable_part", reachable_part(fa))

Minimized ==
    /\ fa.kind = "DFA"
    /\ \E letter_order \in LetterOrders :
           Call("minimized", minimized(fa, letter_order))

Determinized ==
    /\ fa.kind = "NFA"
    /\ \E letter_order \in LetterOrders :
           Call("determinized", determinized(fa, letter_order))

Next ==
    \/ AddState
    \/ AddTransition
    \/ Complete
    \/ EquivalentStates
    \/ MergeEquivalentStates
    \/ ReachablePart
    \/ Minimized
    \/ Determinized

Spec == Init /\ [][Next]_vars

\* an automaton on which only add_state, add_transition and complete are called
NextBuild ==
    \/ AddState
    \/ AddTransition
    \/ Complete

SpecBuild == Init /\ [][NextBuild]_vars

----------------------------------------------------------------------------
(* Vocabulary of the properties *)

\* the words over the alphabet with at most MaxWordLen letters
Words == UNION {[1..n -> Alphabet] : n \in 0..MaxWordLen}

StateIds(self) == DOMAIN self.states

\* every state has an outgoing transition for every letter of the alphabet
IsComplete(self) ==
    \A i \in StateIds(self) : \A letter \in Alphabet :
        \E transition \in self.states[i].transitions : letter \in transition.letters

\* every transition targets a state of the state map
NoDangling(self) ==
    \A i \in StateIds(self) : \A transition \in self.states[i].transitions :
        transition.to \in StateIds(self)

\* no letter labels two transitions leaving the same state
Deterministic(self) ==
    \A i \in StateIds(self) : \A letter \in Alphabet :
        Cardinality({transition \in self.states[i].transitions :
                         letter \in transition.letters}) <= 1

SuccessorTotal(self) ==
    \A i \in StateIds(self) : \A letter \in Alphabet : successor(self, i, letter) # None

\* the states a path of transitions leads to from the initial state
ReachableFromInitial(self) ==
    LET RECURSIVE Closure(_)
        Closure(S) ==
            LET step == S \cup {transition.to :
                                   transition \in UNION {self.states[i].transitions :
                                                             i \in S \cap StateIds(self)}}
            IN  IF step = S THEN S ELSE Closure(step)
    IN  IF self.initial_state_id = None THEN {} ELSE Closure({self.initial_state_id})

----------------------------------------------------------------------------
(* C1: when determinized() has been called on an NFA, it returned a DFA, and
   the NFA and that DFA give the same answer on every word over the alphabet. *)
C1_DeterminizedSameLanguage ==
    op = "determinized" =>
        /\ ret = "DFA"
        /\ \A w \in Words : NFA_accepts(fa, w) = DFA_accepts(out, w)

\* a determinized NFA that has a letter leading one state to two states, and
\* that accepts some words and rejects others
C1_Witness ==
    /\ op = "determinized"
    /\ ret = "DFA"
    /\ \E i \in StateIds(fa) : \E letter \in Alphabet :
          Cardinality(_get_reachable_states(fa, letter, {i})) >= 2
    /\ \E w \in Words : NFA_accepts(fa, w) = "True"
    /\ \E w \in Words : NFA_accepts(fa, w) = "False"
    /\ Cardinality(StateIds(out)) >= 3

(* C2: when minimized() has returned a DFA, that DFA and the receiver give the
   same answer on every word. *)
C2_MinimizedSameLanguage ==
    (op = "minimized" /\ ret = "DFA") =>
        \A w \in Words : DFA_accepts(fa, w) = DFA_accepts(out, w)

(* C3: an add_state or add_transition call that raises leaves the automaton
   exactly as it was before the call. *)
C3_FailedAddChangesNothing ==
    [][(op' \in {"add_state", "add_transition"} /\ ret' \in Errors) => fa' = fa]_vars

(* C4: after merge_equivalent_states() on a complete DFA, every transition of
   every remaining state targets a state that is still in the state map. *)
C4_NoDanglingAfterMerge ==
    [][(/\ op' = "merge_equivalent_states"
        /\ IsComplete(fa)
        /\ NoDangling(fa)) => NoDangling(fa')]_vars

(* C5: in a DFA, no letter labels two different transitions leaving the same
   state, whatever calls were made. *)
C5_DFADeterministic == fa.kind = "DFA" => Deterministic(fa)

\* add_transition has just been rejected on a DFA in which every state of the
\* caller's id range holds a transition for every letter, so that any further
\* letter of the alphabet would label a second transition
C5_Witness ==
    /\ fa.kind = "DFA"
    /\ op = "add_transition"
    /\ ret = "ValueError"
    /\ IsComplete(fa)
    /\ \E i \in StateIds(fa) : Cardinality(fa.states[i].transitions) >= 2
    /\ (0..MaxId) \subseteq StateIds(fa)

(* C6: complete() returns true iff, before the call, every state had an
   outgoing transition for every letter; it returns false exactly when it
   added the hole state. *)
C6_CompleteReturn ==
    [][op' = "complete" =>
          /\ ret' \in {"True", "False"}
          /\ (ret' = "True") <=> IsComplete(fa)
          /\ (ret' = "False") <=> (/\ Len(fa'.keys) = Len(fa.keys) + 1
                                   /\ StateIds(fa) \subseteq StateIds(fa'))]_vars

\* complete() has returned false on an automaton whose states already had
\* some transitions, and the hole state is there
C6_Witness ==
    /\ op = "complete"
    /\ ret = "False"
    /\ \E i \in StateIds(fa) : Cardinality(fa.states[i].transitions) >= 2
    /\ \E i \in StateIds(fa) :
          fa.states[i].transitions = {Transition(Alphabet, i)}

(* C7: right after complete() on a DFA, successor is defined for every state
   (the hole state included) and every letter, and a complete() call that
   follows a complete() call leaves the automaton as it is. *)
C7_CompleteTotalAndIdempotent ==
    [][/\ (op' = "complete" /\ fa'.kind = "DFA") => SuccessorTotal(fa')
       /\ (op = "complete" /\ op' = "complete" /\ fa.kind = "DFA") =>
              (fa' = fa /\ ret' = "True")]_vars

\* complete() has returned true on a DFA that holds a hole state
C7_Witness ==
    /\ fa.kind = "DFA"
    /\ op = "complete"
    /\ ret = "True"
    /\ \E i \in StateIds(fa) :
          i > MaxId /\ fa.states[i].transitions = {Transition(Alphabet, i)}
    /\ Cardinality(StateIds(fa)) >= 3

(* C8: reachable_part() on any DFA returns a DFA whose states are exactly the
   states reachable from the initial state, and that accepts the same words. *)
C8_ReachablePartExact ==
    op = "reachable_part" =>
        /\ ret = "DFA"
        /\ StateIds(out) = ReachableFromInitial(fa)
        /\ \A w \in Words : DFA_accepts(out, w) = DFA_accepts(fa, w)

(* C9: reachable_part(), minimized() and determinized() leave their receiver
   as it was before the call. *)
C9_TransformationsKeepReceiver ==
    [][op' \in {"reachable_part", "minimized", "determinized"} => fa' = fa]_vars

\* minimized() has returned a DFA that differs from its receiver
C9_Witness ==
    /\ op = "minimized"
    /\ ret = "DFA"
    /\ StateIds(out) # StateIds(fa)
    /\ out.completed /\ ~ fa.completed

(* C10: on a complete DFA, when merge_equivalent_states() has returned, a
   second call returns too and leaves the automaton as the first call left it. *)
C10_MergeIdempotent ==
    [][(/\ op' = "merge_equivalent_states"
        /\ ret' = "None"
        /\ IsComplete(fa)
        /\ NoDangling(fa)) =>
            \A letter_order \in LetterOrders :
                LET second == merge_equivalent_states(fa', letter_order)
                IN  second.ret = "None" /\ second.self = fa']_vars

----------------------------------------------------------------------------
(* Myhill-Nerode equivalence, stated on words *)

\* the state a complete DFA without dangling transitions is in after reading
\* word from state i
RECURSIVE DeltaStar(_, _, _)
DeltaStar(self, i, word) ==
    IF word = <<>> THEN i
    ELSE DeltaStar(self, successor(self, i, Head(word)), Tail(word))

\* the unordered pairs of distinct states
DistinctPairs(self) ==
    {UnorderedPair(i, j) : i, j \in StateIds(self)} \ {<<i, i>> : i \in StateIds(self)}

\* The pairs of distinct states that no word distinguishes.  Two states of an
\* n-state DFA that some word distinguishes are distinguished by a word of
\* fewer than n letters.
Indistinguishable(self) ==
    LET n == Cardinality(StateIds(self))
        words == UNION {[1..k -> Alphabet] : k \in 0..n}
    IN  {p \in DistinctPairs(self) :
            \A w \in words :
                self.states[DeltaStar(self, p[1], w)].final
                    = self.states[DeltaStar(self, p[2], w)].final}

(* C11: on a complete DFA, the set equivalent_states() returns is exactly the
   set of unordered pairs of distinct states that no word distinguishes, and
   it holds no pair of a final and a non-final state. *)
C11_EquivalentStatesIsMyhillNerode ==
    (/\ op = "equivalent_states"
     /\ ret = "pairs"
     /\ IsComplete(fa)
     /\ NoDangling(fa)) =>
        /\ out.pairs = Indistinguishable(fa)
        /\ \A p \in out.pairs : fa.states[p[1]].final = fa.states[p[2]].final

\* equivalent_states() has returned, on a complete DFA of at least three
\* states, a set that holds some pairs and leaves others out
C11_Witness ==
    /\ op = "equivalent_states"
    /\ ret = "pairs"
    /\ IsComplete(fa)
    /\ NoDangling(fa)
    /\ Cardinality(StateIds(fa)) >= 3
    /\ out.pairs # {}
    /\ out.pairs # DistinctPairs(fa)

----------------------------------------------------------------------------
\* self.accepts called on either kind of automaton
accepts(self, word) ==
    IF self.kind = "DFA" THEN DFA_accepts(self, word) ELSE NFA_accepts(self, word)

\* the words of at most MaxWordLen letters that hold a letter outside the alphabet
MalformedWords ==
    {w \in UNION {[1..n -> Alphabet \cup {Outside}] : n \in 1..MaxWordLen} :
        \E i \in DOMAIN w : w[i] = Outside}

(* C12: on an automaton built by add_state, add_transition and complete,
   accepts returns false (and does not raise) for every word when the DFA has
   no initial state, and for every word that holds a letter outside the
   alphabet, DFA or NFA, completed or not. *)
C12_AcceptsRejectsMalformed ==
    /\ (fa.kind = "DFA" /\ fa.initial_state_id = None) =>
           \A w \in Words \cup MalformedWords : accepts(fa, w) = "False"
    /\ \A w \in MalformedWords : accepts(fa, w) = "False"

\* a completed DFA with its hole state that accepts some word over the alphabet
\* other than the empty one, so that rejecting is not all it does
C12_Witness ==
    /\ fa.kind = "DFA"
    /\ op = "complete"
    /\ ret = "False"
    /\ fa.initial_state_id # None
    /\ \E w \in Words : w # <<>> /\ accepts(fa, w) = "True"
    /\ \E w \in Words : accepts(fa, w) = "False"

----------------------------------------------------------------------------
(* C13: on every complete DFA, equivalent_states() returns a set: it does not
   raise. *)
C13_EquivalentStatesReturns ==
    (/\ op = "equivalent_states"
     /\ IsComplete(fa)
     /\ NoDangling(fa)) => ret = "pairs"

(* C14: in an NFA, one step on a letter from a state follows each transition
   whose letter set holds the letter and each transition whose letter set is
   empty. *)
C14_EmptyLabelFollowed ==
    fa.kind = "NFA" =>
        \A i \in StateIds(fa) : \A letter \in Alphabet :
            \A transition \in fa.states[i].transitions :
                (letter \in transition.letters \/ transition.letters = {}) =>
                    transition.to \in _get_reachable_states(fa, letter, {i})

(* C15: the final-states set equals the set of ids of the states of the state
   map whose final flag is set. *)
C15_FinalIdsInSync ==
    fa.final_states_ids = {i \in StateIds(fa) : fa.states[i].final}

====
